---- MODULE Spec2Model ----
(***************************************************************************)
(* A model of AccessibilityTester (src/app.py): setup_driver,              *)
(* format_filename and capture_accessibility_test, the run that drives a   *)
(* browser session through the accessScan page and returns the tuple       *)
(* (success, message, screenshot_path).                                    *)
(*                                                                         *)
(* A Python str is a sequence of one-character strings, so that            *)
(* concatenation, substring tests and the regular expressions of           *)
(* format_filename are computed rather than assumed.  Every call into      *)
(* Selenium or into the progress callback either returns or raises an      *)
(* exception with some text; the run's control flow decides what follows.  *)
(***************************************************************************)
EXTENDS Naturals, Sequences, FiniteSets

VARIABLES mode, pc, args, tester, driver, nextSession, runs, screenshot_path, result, log,
          filename

vars ==
    <<mode, pc, args, tester, driver, nextSession, runs, screenshot_path, result, log, filename>>

(***************************************************************************)
(* Bounds of the model.                                                    *)
(***************************************************************************)
\* Calls of capture_accessibility_test one caller makes on its tester object.
MaxRuns ==
    2

\* Pieces a str passed to format_filename on its own is built from.
MaxPieces ==
    3

(***************************************************************************)
(* String literals of the source.                                          *)
(***************************************************************************)
\* app.py:117
\* "Failed to setup browser driver"
MsgSetupFailed ==
    <<"F", "a", "i", "l", "e", "d", " ", "t", "o", " ", "s", "e", "t", "u", "p", " ", "b", "r", "o", "w", "s", "e", "r", " ", "d", "r", "i", "v", "e", "r">>

\* app.py:236
\* "An error occurred: "
MsgOuterPrefix ==
    <<"A", "n", " ", "e", "r", "r", "o", "r", " ", "o", "c", "c", "u", "r", "r", "e", "d", ":", " ">>

\* app.py:181
\* "'Get Free Report' button not found"
MsgNoReportButton ==
    <<"'", "G", "e", "t", " ", "F", "r", "e", "e", " ", "R", "e", "p", "o", "r", "t", "'", " ", "b", "u", "t", "t", "o", "n", " ", "n", "o", "t", " ", "f", "o", "u", "n", "d">>

\* app.py:189
\* "Error clicking 'Get Free Report' button: "
MsgClickErrorPrefix ==
    <<"E", "r", "r", "o", "r", " ", "c", "l", "i", "c", "k", "i", "n", "g", " ", "'", "G", "e", "t", " ", "F", "r", "e", "e", " ", "R", "e", "p", "o", "r", "t", "'", " ", "b", "u", "t", "t", "o", "n", ":", " ">>

\* app.py:203
\* "Popup form did not appear: "
MsgNoFormPrefix ==
    <<"P", "o", "p", "u", "p", " ", "f", "o", "r", "m", " ", "d", "i", "d", " ", "n", "o", "t", " ", "a", "p", "p", "e", "a", "r", ":", " ">>

\* app.py:212
\* "Error filling form fields: "
MsgFillErrorPrefix ==
    <<"E", "r", "r", "o", "r", " ", "f", "i", "l", "l", "i", "n", "g", " ", "f", "o", "r", "m", " ", "f", "i", "e", "l", "d", "s", ":", " ">>

\* app.py:232
\* "Error submitting form: "
MsgSubmitErrorPrefix ==
    <<"E", "r", "r", "o", "r", " ", "s", "u", "b", "m", "i", "t", "t", "i", "n", "g", " ", "f", "o", "r", "m", ":", " ">>

\* app.py:228
\* "Report for URL: "
MsgReportPrefix ==
    <<"R", "e", "p", "o", "r", "t", " ", "f", "o", "r", " ", "U", "R", "L", ":", " ">>

\* app.py:228
\* " sent to email: "
MsgReportMiddle ==
    <<" ", "s", "e", "n", "t", " ", "t", "o", " ", "e", "m", "a", "i", "l", ":", " ">>

\* app.py:170
\* "accessibility_results_"
PathPrefix ==
    <<"a", "c", "c", "e", "s", "s", "i", "b", "i", "l", "i", "t", "y", "_", "r", "e", "s", "u", "l", "t", "s", "_">>

\* app.py:170
\* ".png"
PathSuffix ==
    <<".", "p", "n", "g">>

\* app.py:110, the regular expression https?:// with the s
\* "https://"
SchemeHttps ==
    <<"h", "t", "t", "p", "s", ":", "/", "/">>

\* app.py:110, the regular expression https?:// without the s
\* "http://"
SchemeHttp ==
    <<"h", "t", "t", "p", ":", "/", "/">>

\* Characters matched by \w (and \d) among the characters the model uses: app.py:111.
Letters ==
    {"a", "b", "c", "d", "e", "f", "g", "h", "i", "j", "k", "l", "m", "n", "o", "p", "q", "r", "s", "t", "u", "v", "w", "x", "y", "z", "A", "B", "C", "D", "E", "F", "G", "H", "I", "J", "K", "L", "M", "N", "O", "P", "Q", "R", "S", "T", "U", "V", "W", "X", "Y", "Z"}

Digits ==
    {"0", "1", "2", "3", "4", "5", "6", "7", "8", "9"}

(***************************************************************************)
(* Inputs: the values a caller passes (app.py:323-325) and the texts of    *)
(* the exceptions the browser and the callback raise.                      *)
(***************************************************************************)
\* the placeholder of the form, app.py:277
\* "https://example.com"
ExampleUrl ==
    <<"h", "t", "t", "p", "s", ":", "/", "/", "e", "x", "a", "m", "p", "l", "e", ".", "c", "o", "m">>

\* a url with an underscore, a digit and a trailing slash
\* "http://a_b.io/r2/"
UnderscoreUrl ==
    <<"h", "t", "t", "p", ":", "/", "/", "a", "_", "b", ".", "i", "o", "/", "r", "2", "/">>

\* a string with a scheme inside it and a leading slash
\* "/x/https://y"
NestedUrl ==
    <<"/", "x", "/", "h", "t", "t", "p", "s", ":", "/", "/", "y">>

\* an email address
\* "j@x.org"
Email1 ==
    <<"j", "@", "x", ".", "o", "r", "g">>

\* another email address
\* "k2@y.net"
Email2 ==
    <<"k", "2", "@", "y", ".", "n", "e", "t">>

\* the placeholder of the form, app.py:285
\* "John Doe"
Username1 ==
    <<"J", "o", "h", "n", " ", "D", "o", "e">>

\* text of an exception
\* "timeout"
Fault1 ==
    <<"t", "i", "m", "e", "o", "u", "t">>

\* text of another exception
\* "stale"
Fault2 ==
    <<"s", "t", "a", "l", "e">>

Urls ==
    {ExampleUrl, UnderscoreUrl, NestedUrl}

Emails ==
    {Email1, Email2}

Usernames ==
    {Username1}

FaultTexts ==
    {Fault1, Fault2}

\* Python's None, as a value no str equals: a str is a sequence of
\* one-character strings and this is not one.
None ==
    <<"None">>

\* self.driver = None, app.py:73.  Sessions are numbered from 1.
NoDriver ==
    0

Threads ==
    {1, 2}

\* AccessibilityTester objects.
Objects ==
    {1, 2}

(***************************************************************************)
(* str operations.                                                         *)
(***************************************************************************)
\* sub in s
Contains(s, sub) ==
    \E i \in 1..(Len(s) + 1) :
        /\ i + Len(sub) - 1 <= Len(s)
        /\ SubSeq(s, i, i + Len(sub) - 1) = sub

\* s.startswith(p)
StartsWith(s, p) ==
    /\ Len(p) <= Len(s)
    /\ SubSeq(s, 1, Len(p)) = p

Drop(s, n) ==
    SubSeq(s, n + 1, Len(s))

\* re.sub(r"https?://", "", s): every non-overlapping match, scanning from
\* the left, is removed; at one position https:// is tried before http://.
RECURSIVE RemoveScheme(_)
RemoveScheme(s) ==
    IF s = << >> THEN << >>
    ELSE IF StartsWith(s, SchemeHttps) THEN RemoveScheme(Drop(s, Len(SchemeHttps)))
    ELSE IF StartsWith(s, SchemeHttp) THEN RemoveScheme(Drop(s, Len(SchemeHttp)))
    ELSE <<Head(s)>> \o RemoveScheme(Tail(s))

RECURSIVE LStrip(_, _)
LStrip(s, c) ==
    IF s # << >> /\ Head(s) = c THEN LStrip(Tail(s), c) ELSE s

RECURSIVE RStrip(_, _)
RStrip(s, c) ==
    IF s # << >> /\ s[Len(s)] = c THEN RStrip(SubSeq(s, 1, Len(s) - 1), c) ELSE s

\* s.strip(c)
Strip(s, c) ==
    RStrip(LStrip(s, c), c)

\* A character [^\w\d] does not match, so one re.sub keeps: \w is a letter,
\* a digit or the underscore, and \d adds nothing to it.
IsWordChar(c) ==
    c \in Letters \cup Digits \cup {"_"}

\* re.sub(r"[^\w\d]", "", s)
RECURSIVE RemoveNonWord(_)
RemoveNonWord(s) ==
    IF s = << >> THEN << >>
    ELSE IF IsWordChar(Head(s)) THEN <<Head(s)>> \o RemoveNonWord(Tail(s))
    ELSE RemoveNonWord(Tail(s))

\* format_filename without its first substitution: the scheme stays in.
format_filename_keeping_scheme(url) ==
    RemoveNonWord(Strip(url, "/"))

\* AccessibilityTester.format_filename
format_filename(url) ==
    RemoveNonWord(Strip(RemoveScheme(url), "/"))

\* f"accessibility_results_{self.format_filename(target_url)}.png"
ScreenshotPath(target_url) ==
    PathPrefix \o format_filename(target_url) \o PathSuffix

(***************************************************************************)
(* The tuples capture_accessibility_test returns.                          *)
(***************************************************************************)
Result(success, message, path) ==
    [success |-> success, message |-> message, screenshot_path |-> path]

\* return False, "Failed to setup browser driver", None
SetupFailedResult ==
    Result(FALSE, MsgSetupFailed, None)

\* The outermost handler returning a fixed message, without the text of e.
OuterExceptResultWithoutText(e) ==
    Result(FALSE, MsgOuterPrefix, None)

\* except Exception as e (the outermost handler)
OuterExceptResult(e) ==
    Result(FALSE, MsgOuterPrefix \o e, None)

\* The report-button handler returning None for the path, as the outermost
\* handler does.
NoReportButtonResultWithoutPath(path) ==
    Result(FALSE, MsgNoReportButton, None)

NoReportButtonResult(path) ==
    Result(FALSE, MsgNoReportButton, path)

ClickErrorResult(e, path) ==
    Result(FALSE, MsgClickErrorPrefix \o e, path)

NoFormResult(e, path) ==
    Result(FALSE, MsgNoFormPrefix \o e, path)

FillErrorResult(e, path) ==
    Result(FALSE, MsgFillErrorPrefix \o e, path)

SubmitErrorResult(e, path) ==
    Result(FALSE, MsgSubmitErrorPrefix \o e, path)

SuccessResult(target_url, email, path) ==
    Result(TRUE, MsgReportPrefix \o target_url \o MsgReportMiddle \o email, path)

(***************************************************************************)
(* Outcomes of a call: it returns, or raises an exception with a text.     *)
(* save_screenshot has a third outcome: it returns False when the file     *)
(* cannot be written.                                                      *)
(***************************************************************************)
Ok ==
    [st |-> "ok", exc |-> << >>]

Raises ==
    {[st |-> "raise", exc |-> e] : e \in FaultTexts}

Outcomes ==
    {Ok} \cup Raises

ReturnsFalse ==
    [st |-> "false", exc |-> << >>]

ScreenshotOutcomes ==
    Outcomes \cup {ReturnsFalse}

\* The calls of the consent stage, app.py:136-145.
ConsentOps ==
    {"consent_wait", "consent_click"}

NoArgs ==
    [target_url |-> << >>, username |-> << >>, email |-> << >>, progress_callback |-> FALSE]

ArgSets ==
    [target_url : Urls, username : Usernames, email : Emails, progress_callback : BOOLEAN]

\* The arguments of the runs of mode "conc": one url for both runs, so that
\* they also share the screenshot file, and no progress callback.
ConcArgSets ==
    [target_url : {ExampleUrl}, username : Usernames, email : {Email1},
     progress_callback : {FALSE}]

Terminal ==
    {"returned", "escaped"}

\* One entry of the record of the calls a run made.
Entry(op, sess, arg, o) ==
    [op |-> op, sess |-> sess, arg |-> arg, st |-> o.st, exc |-> o.exc]

(***************************************************************************)
(* State.                                                                  *)
(*   pc[t]              where thread t is in capture_accessibility_test    *)
(*   args[t]            target_url, username, email, progress_callback     *)
(*   tester[t]          the AccessibilityTester object t calls             *)
(*   driver[o]          self.driver of object o                            *)
(*   nextSession        the next browser session webdriver.Chrome creates  *)
(*   runs[t]            calls of capture_accessibility_test t has made     *)
(*   screenshot_path[t] the local variable, None until it is assigned      *)
(*   result[t]          << >>, or <<r>> once a return statement ran        *)
(*   log[t]             the calls the current run made, in order           *)
(*   mode               "single": thread 1 alone calls its tester, one run *)
(*                      after the other;                                   *)
(*                      "pair": thread 1 makes one run, then thread 2      *)
(*                      makes one run on a tester of its own, with the     *)
(*                      same arguments and the same outcome of every call  *)
(*                      outside the consent stage;                         *)
(*                      "conc": threads 1 and 2 make one run each, their   *)
(*                      steps interleaved in any order, on one tester or   *)
(*                      on two;                                            *)
(*                      "format": format_filename alone is called          *)
(*   filename           url, the argument of a call of format_filename     *)
(*                      outside a run, and out, the value it returned      *)
(***************************************************************************)
\* No call of format_filename outside a run.
NoFilename ==
    [url |-> << >>, out |-> None]

InitCommon ==
    /\ pc = [t \in Threads |-> "idle"]
    /\ args = [t \in Threads |-> NoArgs]
    /\ tester = [t \in Threads |-> t]
    /\ driver = [o \in Objects |-> NoDriver]
    /\ nextSession = 1
    /\ runs = [t \in Threads |-> 0]
    /\ screenshot_path = [t \in Threads |-> None]
    /\ result = [t \in Threads |-> << >>]
    /\ log = [t \in Threads |-> << >>]

Init ==
    /\ mode = "single"
    /\ InitCommon
    /\ filename = NoFilename

InitPair ==
    /\ mode = "pair"
    /\ InitCommon
    /\ filename = NoFilename

\* In mode "pair" thread 2 takes, for every call outside the consent stage,
\* the outcome the same call had in the run of thread 1.  In mode "conc" one
\* exception text stands for all.
Allowed(t, op, arg, o) ==
    /\ (mode = "pair" /\ t = 2 /\ op \notin ConsentOps) =>
        \A i \in DOMAIN log[1] :
            (log[1][i].op = op /\ log[1][i].arg = arg) =>
                (log[1][i].st = o.st /\ log[1][i].exc = o.exc)
    /\ mode = "conc" => o.exc \in {<< >>, Fault1}

\* Who may call capture_accessibility_test now.
MayInvoke(t) ==
    /\ pc[t] \in {"idle"} \cup Terminal
    /\ mode = "single" => (t = 1 /\ runs[t] < MaxRuns)
    /\ mode = "pair" => (runs[t] = 0 /\ (t = 2 => pc[1] \in Terminal))
    /\ mode = "conc" => runs[t] = 0
    /\ mode # "format"

\* A return statement inside the try block: the finally clause runs next.
Return(t, r) ==
    /\ result' = [result EXCEPT ![t] = <<r>>]
    /\ pc' = [pc EXCEPT ![t] = "finally"]

Goto(t, label) ==
    /\ pc' = [pc EXCEPT ![t] = label]
    /\ UNCHANGED result

\* A call on self.driver is recorded with the session self.driver holds.
Record(t, op, arg, sess, o) ==
    log' = [log EXCEPT ![t] = Append(@, Entry(op, sess, arg, o))]

\* A call on self.driver with outcome o: the run goes on at next when the call
\* returns, and returns onRaise when it raises.
CallThen(t, op, o, next, onRaise) ==
    /\ Allowed(t, op, 0, o)
    /\ Record(t, op, 0, driver[tester[t]], o)
    /\ IF o.st = "raise" THEN Return(t, onRaise) ELSE Goto(t, next)

\* The caller calls tester.capture_accessibility_test(target_url, username,
\* email, update_progress).
Invoke(t) ==
    /\ MayInvoke(t)
    /\ \E a \in ArgSets :
        /\ (mode = "pair" /\ t = 2) => a = args[1]
        /\ mode = "conc" => a \in ConcArgSets
        /\ args' = [args EXCEPT ![t] = a]
    /\ runs' = [runs EXCEPT ![t] = @ + 1]
    /\ pc' = [pc EXCEPT ![t] = "setup"]
    /\ screenshot_path' = [screenshot_path EXCEPT ![t] = None]
    /\ result' = [result EXCEPT ![t] = << >>]
    /\ log' = [log EXCEPT ![t] = << >>]
    /\ UNCHANGED <<filename, mode, tester, driver, nextSession>>

\* setup_driver called inside the try block: its failure passes through the
\* finally clause.
SetupDriverInsideTry(t) ==
    /\ pc[t] = "setup"
    /\ \E o \in Outcomes :
        /\ Allowed(t, "open", 0, o)
        /\ IF o.st = "ok"
             THEN /\ driver' = [driver EXCEPT ![tester[t]] = nextSession]
                  /\ nextSession' = nextSession + 1
                  /\ Record(t, "open", 0, nextSession, o)
                  /\ Goto(t, "cb10")
             ELSE /\ Record(t, "open", 0, NoDriver, o)
                  /\ Return(t, SetupFailedResult)
                  /\ UNCHANGED <<driver, nextSession>>
    /\ UNCHANGED <<filename, mode, args, tester, runs, screenshot_path>>

\* The session kept in an attribute of the class, which all tester objects
\* share, instead of in self.
SetupDriverInClassAttribute(t) ==
    /\ pc[t] = "setup"
    /\ \E o \in Outcomes :
        /\ Allowed(t, "open", 0, o)
        /\ IF o.st = "ok"
             THEN /\ driver' = [ob \in Objects |-> nextSession]
                  /\ nextSession' = nextSession + 1
                  /\ Record(t, "open", 0, nextSession, o)
                  /\ Goto(t, "cb10")
             ELSE /\ Record(t, "open", 0, NoDriver, o)
                  /\ result' = [result EXCEPT ![t] = <<SetupFailedResult>>]
                  /\ pc' = [pc EXCEPT ![t] = "returned"]
                  /\ UNCHANGED <<driver, nextSession>>
    /\ UNCHANGED <<filename, mode, args, tester, runs, screenshot_path>>

\* if not self.setup_driver(): return False, "Failed to setup browser driver", None
\* setup_driver assigns self.driver only when webdriver.Chrome returned.
SetupDriver(t) ==
    /\ pc[t] = "setup"
    /\ \E o \in Outcomes :
        /\ Allowed(t, "open", 0, o)
        /\ IF o.st = "ok"
             THEN /\ driver' = [driver EXCEPT ![tester[t]] = nextSession]
                  /\ nextSession' = nextSession + 1
                  /\ Record(t, "open", 0, nextSession, o)
                  /\ Goto(t, "cb10")
             ELSE /\ Record(t, "open", 0, NoDriver, o)
                  /\ result' = [result EXCEPT ![t] = <<SetupFailedResult>>]
                  /\ pc' = [pc EXCEPT ![t] = "returned"]
                  /\ UNCHANGED <<driver, nextSession>>
    /\ UNCHANGED <<filename, mode, args, tester, runs, screenshot_path>>

\* The checkpoints with the 50 mistyped as 60.
CheckpointMistyped ==
    [cb10  |-> [percent |-> 10,  next |-> "get"],
     cb20  |-> [percent |-> 20,  next |-> "consent_wait"],
     cb30  |-> [percent |-> 30,  next |-> "iframe_wait"],
     cb50  |-> [percent |-> 60,  next |-> "find_iframe"],
     cb70  |-> [percent |-> 70,  next |-> "screenshot"],
     cb80  |-> [percent |-> 80,  next |-> "form_wait"],
     cb90  |-> [percent |-> 90,  next |-> "submit_find"],
     cb100 |-> [percent |-> 100, next |-> "ret"]]

\* The checkpoints: the percent passed to progress_callback at each and the
\* statement that follows it.
Checkpoint ==
    [cb10  |-> [percent |-> 10,  next |-> "get"],
     cb20  |-> [percent |-> 20,  next |-> "consent_wait"],
     cb30  |-> [percent |-> 30,  next |-> "iframe_wait"],
     cb50  |-> [percent |-> 50,  next |-> "find_iframe"],
     cb70  |-> [percent |-> 70,  next |-> "screenshot"],
     cb80  |-> [percent |-> 80,  next |-> "form_wait"],
     cb90  |-> [percent |-> 90,  next |-> "submit_find"],
     cb100 |-> [percent |-> 100, next |-> "ret"]]

\* What the run returns when progress_callback raises e at checkpoint label:
\* the call at 100 stands inside the try block of the submit stage, every
\* other call is caught by the outermost handler.
ProgressExceptResult(label, e, path) ==
    IF label = "cb100" THEN SubmitErrorResult(e, path) ELSE OuterExceptResult(e)

\* if progress_callback: progress_callback(percent, message)
Progress(t) ==
    /\ pc[t] \in DOMAIN Checkpoint
    /\ LET c == Checkpoint[pc[t]] IN
        IF ~args[t].progress_callback
          THEN /\ Goto(t, c.next)
               /\ UNCHANGED log
          ELSE \E o \in Outcomes :
                /\ Allowed(t, "progress", c.percent, o)
                /\ Record(t, "progress", c.percent, NoDriver, o)
                /\ IF o.st = "raise"
                     THEN Return(t, ProgressExceptResult(pc[t], o.exc, screenshot_path[t]))
                     ELSE Goto(t, c.next)
    /\ UNCHANGED <<filename, mode, args, tester, driver, nextSession, runs, screenshot_path>>

\* self.driver.get(full_url)
Navigate(t) ==
    /\ pc[t] = "get"
    /\ \E o \in Outcomes : CallThen(t, "get", o, "cb20", OuterExceptResult(o.exc))
    /\ UNCHANGED <<filename, mode, args, tester, driver, nextSession, runs, screenshot_path>>

\* WebDriverWait(self.driver, 10).until(presence of a consent button), inside
\* try ... except Exception: the run goes on either way.
ConsentWait(t) ==
    /\ pc[t] = "consent_wait"
    /\ \E o \in Outcomes :
        /\ Allowed(t, "consent_wait", 0, o)
        /\ Record(t, "consent_wait", 0, driver[tester[t]], o)
        /\ Goto(t, IF o.st = "ok" THEN "consent_click" ELSE "cb30")
    /\ UNCHANGED <<filename, mode, args, tester, driver, nextSession, runs, screenshot_path>>

\* cookie_banner.click() outside the try block of the consent stage: its
\* exception reaches the outermost handler.
ConsentClickUnguarded(t) ==
    /\ pc[t] = "consent_click"
    /\ \E o \in Outcomes :
        /\ Allowed(t, "consent_click", 0, o)
        /\ Record(t, "consent_click", 0, driver[tester[t]], o)
        /\ IF o.st = "raise" THEN Return(t, OuterExceptResult(o.exc)) ELSE Goto(t, "cb30")
    /\ UNCHANGED <<filename, mode, args, tester, driver, nextSession, runs, screenshot_path>>

\* cookie_banner.click(), inside the same try ... except Exception.
ConsentClick(t) ==
    /\ pc[t] = "consent_click"
    /\ \E o \in Outcomes :
        /\ Allowed(t, "consent_click", 0, o)
        /\ Record(t, "consent_click", 0, driver[tester[t]], o)
        /\ Goto(t, "cb30")
    /\ UNCHANGED <<filename, mode, args, tester, driver, nextSession, runs, screenshot_path>>

\* The iframe awaited without a timeout: while it is absent the run polls
\* for it and makes no other step.
IframeWaitUnbounded(t) ==
    /\ pc[t] = "iframe_wait"
    /\ \E o \in Outcomes :
        /\ Allowed(t, "iframe_wait", 0, o)
        /\ Record(t, "iframe_wait", 0, driver[tester[t]], o)
        /\ Goto(t, IF o.st = "raise" THEN "iframe_polling" ELSE "cb50")
    /\ UNCHANGED <<filename, mode, args, tester, driver, nextSession, runs, screenshot_path>>

\* WebDriverWait(self.driver, 30).until(presence of the iframe)
IframeWait(t) ==
    /\ pc[t] = "iframe_wait"
    /\ \E o \in Outcomes : CallThen(t, "iframe_wait", o, "cb50", OuterExceptResult(o.exc))
    /\ UNCHANGED <<filename, mode, args, tester, driver, nextSession, runs, screenshot_path>>

\* iframe = self.driver.find_element(By.XPATH, iframe_xpath)
FindIframe(t) ==
    /\ pc[t] = "find_iframe"
    /\ \E o \in Outcomes : CallThen(t, "find_iframe", o, "switch", OuterExceptResult(o.exc))
    /\ UNCHANGED <<filename, mode, args, tester, driver, nextSession, runs, screenshot_path>>

\* self.driver.switch_to.frame(iframe)
SwitchFrame(t) ==
    /\ pc[t] = "switch"
    /\ \E o \in Outcomes : CallThen(t, "switch", o, "cb70", OuterExceptResult(o.exc))
    /\ UNCHANGED <<filename, mode, args, tester, driver, nextSession, runs, screenshot_path>>

\* screenshot_path = f"accessibility_results_{...}.png"
\* self.driver.save_screenshot(screenshot_path): its value is not read, and
\* an exception it raises reaches the outermost handler.
Screenshot(t) ==
    /\ pc[t] = "screenshot"
    /\ screenshot_path' = [screenshot_path EXCEPT ![t] = ScreenshotPath(args[t].target_url)]
    /\ \E o \in ScreenshotOutcomes :
        CallThen(t, "screenshot", o, "report_wait", OuterExceptResult(o.exc))
    /\ UNCHANGED <<filename, mode, args, tester, driver, nextSession, runs>>

\* The report-button wait tried again after it failed.
ReportWaitRetried(t) ==
    /\ pc[t] = "report_wait"
    /\ \E o \in Outcomes :
        /\ Allowed(t, "report_wait", 0, o)
        /\ Record(t, "report_wait", 0, driver[tester[t]], o)
        /\ Goto(t, IF o.st = "raise" THEN "report_wait" ELSE "trigger_find")
    /\ UNCHANGED <<filename, mode, args, tester, driver, nextSession, runs, screenshot_path>>

\* WebDriverWait(self.driver, 10).until(presence of the report button)
ReportWait(t) ==
    /\ pc[t] = "report_wait"
    /\ \E o \in Outcomes :
        CallThen(t, "report_wait", o, "trigger_find", NoReportButtonResult(screenshot_path[t]))
    /\ UNCHANGED <<filename, mode, args, tester, driver, nextSession, runs, screenshot_path>>

\* button = self.driver.find_element(By.XPATH, get_report_button_xpath)
TriggerFind(t) ==
    /\ pc[t] = "trigger_find"
    /\ \E o \in Outcomes :
        CallThen(t, "trigger_find", o, "trigger_click",
                 ClickErrorResult(o.exc, screenshot_path[t]))
    /\ UNCHANGED <<filename, mode, args, tester, driver, nextSession, runs, screenshot_path>>

\* self.driver.execute_script("arguments[0].click();", button)
TriggerClick(t) ==
    /\ pc[t] = "trigger_click"
    /\ \E o \in Outcomes :
        CallThen(t, "trigger_click", o, "cb80", ClickErrorResult(o.exc, screenshot_path[t]))
    /\ UNCHANGED <<filename, mode, args, tester, driver, nextSession, runs, screenshot_path>>

\* The form-wait handler logging the error without returning.
FormWaitWithoutReturn(t) ==
    /\ pc[t] = "form_wait"
    /\ \E o \in Outcomes :
        /\ Allowed(t, "form_wait", 0, o)
        /\ Record(t, "form_wait", 0, driver[tester[t]], o)
        /\ Goto(t, "fill_name")
    /\ UNCHANGED <<filename, mode, args, tester, driver, nextSession, runs, screenshot_path>>

\* WebDriverWait(self.driver, 30).until(presence of the name field)
FormWait(t) ==
    /\ pc[t] = "form_wait"
    /\ \E o \in Outcomes :
        CallThen(t, "form_wait", o, "fill_name", NoFormResult(o.exc, screenshot_path[t]))
    /\ UNCHANGED <<filename, mode, args, tester, driver, nextSession, runs, screenshot_path>>

\* The name-field handler logging the error without returning.
FillNameWithoutReturn(t) ==
    /\ pc[t] = "fill_name"
    /\ \E o \in Outcomes :
        /\ Allowed(t, "fill_name", 0, o)
        /\ Record(t, "fill_name", 0, driver[tester[t]], o)
        /\ Goto(t, "fill_email")
    /\ UNCHANGED <<filename, mode, args, tester, driver, nextSession, runs, screenshot_path>>

\* self.driver.find_element(By.XPATH, name_field_xpath).send_keys(username)
FillName(t) ==
    /\ pc[t] = "fill_name"
    /\ \E o \in Outcomes :
        CallThen(t, "fill_name", o, "fill_email", FillErrorResult(o.exc, screenshot_path[t]))
    /\ UNCHANGED <<filename, mode, args, tester, driver, nextSession, runs, screenshot_path>>

\* self.driver.find_element(By.XPATH, email_field_xpath).send_keys(email)
FillEmail(t) ==
    /\ pc[t] = "fill_email"
    /\ \E o \in Outcomes :
        CallThen(t, "fill_email", o, "cb90", FillErrorResult(o.exc, screenshot_path[t]))
    /\ UNCHANGED <<filename, mode, args, tester, driver, nextSession, runs, screenshot_path>>

\* submit_btn = self.driver.find_element(By.XPATH, submit_button_xpath)
SubmitFind(t) ==
    /\ pc[t] = "submit_find"
    /\ \E o \in Outcomes :
        CallThen(t, "submit_find", o, "submit_click",
                 SubmitErrorResult(o.exc, screenshot_path[t]))
    /\ UNCHANGED <<filename, mode, args, tester, driver, nextSession, runs, screenshot_path>>

\* The submit click with its exception swallowed.
SubmitClickIgnoringFault(t) ==
    /\ pc[t] = "submit_click"
    /\ \E o \in Outcomes :
        /\ Allowed(t, "submit_click", 0, o)
        /\ Record(t, "submit_click", 0, driver[tester[t]], o)
        /\ Goto(t, "cb100")
    /\ UNCHANGED <<filename, mode, args, tester, driver, nextSession, runs, screenshot_path>>

\* self.driver.execute_script("arguments[0].click();", submit_btn)
SubmitClick(t) ==
    /\ pc[t] = "submit_click"
    /\ \E o \in Outcomes :
        CallThen(t, "submit_click", o, "cb100", SubmitErrorResult(o.exc, screenshot_path[t]))
    /\ UNCHANGED <<filename, mode, args, tester, driver, nextSession, runs, screenshot_path>>

\* return True, f"Report for URL: {target_url} sent to email: {email}", screenshot_path
ReturnSuccess(t) ==
    /\ pc[t] = "ret"
    /\ Return(t, SuccessResult(args[t].target_url, args[t].email, screenshot_path[t]))
    /\ UNCHANGED <<filename, mode, args, tester, driver, nextSession, runs, screenshot_path, log>>

\* The session closed at the end of the successful path only, not in a
\* finally clause.
FinallyOnSuccessOnly(t) ==
    /\ pc[t] = "finally"
    /\ IF driver[tester[t]] # NoDriver /\ result[t][1].success
         THEN \E o \in Outcomes :
                /\ Allowed(t, "quit", 0, o)
                /\ Record(t, "quit", 0, driver[tester[t]], o)
                /\ pc' = [pc EXCEPT ![t] = IF o.st = "ok" THEN "returned" ELSE "escaped"]
         ELSE /\ pc' = [pc EXCEPT ![t] = "returned"]
              /\ UNCHANGED log
    /\ UNCHANGED <<filename, mode, args, tester, driver, nextSession, runs, screenshot_path, result>>

\* finally: if self.driver: self.driver.quit()
\* When quit raises, its exception replaces the pending return value and
\* leaves capture_accessibility_test; nothing catches it.
Finally(t) ==
    /\ pc[t] = "finally"
    /\ IF driver[tester[t]] # NoDriver
         THEN \E o \in Outcomes :
                /\ Allowed(t, "quit", 0, o)
                /\ Record(t, "quit", 0, driver[tester[t]], o)
                /\ pc' = [pc EXCEPT ![t] = IF o.st = "ok" THEN "returned" ELSE "escaped"]
         ELSE /\ pc' = [pc EXCEPT ![t] = "returned"]
              /\ UNCHANGED log
    /\ UNCHANGED <<filename, mode, args, tester, driver, nextSession, runs, screenshot_path, result>>

Next ==
    \E t \in Threads :
        \/ Invoke(t)
        \/ SetupDriver(t)
        \/ Progress(t)
        \/ Navigate(t)
        \/ ConsentWait(t)
        \/ ConsentClick(t)
        \/ IframeWait(t)
        \/ FindIframe(t)
        \/ SwitchFrame(t)
        \/ Screenshot(t)
        \/ ReportWait(t)
        \/ TriggerFind(t)
        \/ TriggerClick(t)
        \/ FormWait(t)
        \/ FillName(t)
        \/ FillEmail(t)
        \/ SubmitFind(t)
        \/ SubmitClick(t)
        \/ ReturnSuccess(t)
        \/ Finally(t)

Spec ==
    Init /\ [][Next]_vars

\* A step of the run of thread t: every action but the call by the caller.
RunStep(t) ==
    \/ SetupDriver(t) \/ Progress(t) \/ Navigate(t) \/ ConsentWait(t) \/ ConsentClick(t)
    \/ IframeWait(t) \/ FindIframe(t) \/ SwitchFrame(t) \/ Screenshot(t) \/ ReportWait(t)
    \/ TriggerFind(t) \/ TriggerClick(t) \/ FormWait(t) \/ FillName(t) \/ FillEmail(t)
    \/ SubmitFind(t) \/ SubmitClick(t) \/ ReturnSuccess(t) \/ Finally(t)

\* Every call the run makes returns or raises within its timeout, and the
\* thread is scheduled: a run that can take a step takes one.
SpecLive ==
    Init /\ [][Next]_vars /\ \A t \in Threads : WF_vars(RunStep(t))

\* Two callers, each with a tester of its own (tester = <<1, 2>>) or both
\* with the same one (tester = <<1, 1>>).
InitConc ==
    /\ mode = "conc"
    /\ pc = [t \in Threads |-> "idle"]
    /\ args = [t \in Threads |-> NoArgs]
    /\ tester \in {[t \in Threads |-> t], [t \in Threads |-> 1]}
    /\ driver = [o \in Objects |-> NoDriver]
    /\ nextSession = 1
    /\ runs = [t \in Threads |-> 0]
    /\ screenshot_path = [t \in Threads |-> None]
    /\ result = [t \in Threads |-> << >>]
    /\ log = [t \in Threads |-> << >>]
    /\ filename = NoFilename

SpecConc ==
    InitConc /\ [][Next]_vars

(***************************************************************************)
(* format_filename on its own: the caller passes it a str (app.py:344),    *)
(* here any concatenation of at most MaxPieces of the pieces below.        *)
(***************************************************************************)
UrlPieces ==
    {SchemeHttps, SchemeHttp, <<"/">>, <<".">>, <<"_">>, <<"-">>, <<"a">>, <<"Z">>, <<"7">>}

RECURSIVE Concatenations(_)
Concatenations(n) ==
    IF n = 0 THEN {<< >>}
    ELSE LET shorter == Concatenations(n - 1) IN
         shorter \cup {s \o p : s \in shorter, p \in UrlPieces}

FormatInputs ==
    Urls \cup Concatenations(MaxPieces)

InitFormat ==
    /\ mode = "format"
    /\ InitCommon
    /\ \E u \in FormatInputs : filename = [url |-> u, out |-> None]

\* tester.format_filename(target_url)
FormatFilename ==
    /\ mode = "format"
    /\ filename.out = None
    /\ filename' = [filename EXCEPT !.out = format_filename(filename.url)]
    /\ UNCHANGED <<mode, pc, args, tester, driver, nextSession, runs, screenshot_path, result, log>>

NextFormat ==
    FormatFilename

SpecFormat ==
    InitFormat /\ [][NextFormat]_vars

SpecPair ==
    InitPair /\ [][Next]_vars

(***************************************************************************)
(* What a run did, read from its record.                                   *)
(***************************************************************************)
Ops(t) ==
    {log[t][i].op : i \in DOMAIN log[t]}

Raised(t, op) ==
    \E i \in DOMAIN log[t] : log[t][i].op = op /\ log[t][i].st = "raise"

\* The indices of the progress events of the run, and their percents.
EventIdx(t) ==
    {i \in DOMAIN log[t] : log[t][i].op = "progress"}

Percents(t) ==
    {log[t][i].arg : i \in EventIdx(t)}

\* The session the run opened, if any.
OpenedSessions(t) ==
    {log[t][i].sess : i \in {j \in DOMAIN log[t] : log[t][j].op = "open" /\ log[t][j].st = "ok"}}

QuitCalls(t, s) ==
    {i \in DOMAIN log[t] : log[t][i].op = "quit" /\ log[t][i].sess = s}

AllQuitCalls(t) ==
    {i \in DOMAIN log[t] : log[t][i].op = "quit"}

\* The calls of the stages SCAN_WAIT, SWITCH_CONTEXT, FIND_REPORT_BUTTON,
\* TRIGGER_REPORT, FORM_WAIT, FORM_FILL and SUBMIT.
RequiredOps ==
    {"iframe_wait", "find_iframe", "switch", "report_wait", "trigger_find",
     "trigger_click", "form_wait", "fill_name", "fill_email", "submit_find",
     "submit_click"}

\* Every call of the run returned, the consent stage apart, whose failure is
\* an outcome of success.
AllSucceeded(t) ==
    \A i \in DOMAIN log[t] : log[t][i].st = "ok" \/ log[t][i].op \in ConsentOps

(***************************************************************************)
(* C1.  A session setup_driver opened is closed exactly once before the    *)
(* run ends, whatever the stages did; quit is called on no other session,  *)
(* and is not called at all when setup_driver failed.                      *)
(***************************************************************************)
C1_SessionClosedExactlyOnce ==
    \A t \in Threads :
        /\ \A i \in AllQuitCalls(t) : log[t][i].sess \in OpenedSessions(t)
        /\ \A s \in OpenedSessions(t) :
            /\ Cardinality(QuitCalls(t, s)) <= 1
            /\ pc[t] \in Terminal => Cardinality(QuitCalls(t, s)) = 1
        /\ Raised(t, "open") => AllQuitCalls(t) = {}

\* A run whose trigger click raised has ended and closed its session once.
C1_Witness ==
    \E t \in Threads :
        /\ pc[t] \in Terminal
        /\ Raised(t, "trigger_click")
        /\ \E s \in OpenedSessions(t) : Cardinality(QuitCalls(t, s)) = 1

(***************************************************************************)
(* C2.  Every run ends by returning a result to its caller: no exception   *)
(* leaves capture_accessibility_test.                                      *)
(***************************************************************************)
C2_AlwaysReturnsResult ==
    \A t \in Threads :
        /\ pc[t] # "escaped"
        /\ pc[t] = "returned" => result[t] # << >>

(***************************************************************************)
(* C3.  When setup_driver fails the run returns (False, "Failed to setup   *)
(* browser driver", None) at once: it calls nothing else, neither the      *)
(* progress callback nor the browser.                                      *)
(***************************************************************************)
C3_SetupFailure ==
    \A t \in Threads :
        Raised(t, "open") =>
            /\ pc[t] = "returned"
            /\ result[t] = <<[success |-> FALSE, message |-> MsgSetupFailed,
                              screenshot_path |-> None]>>
            /\ Len(log[t]) = 1

\* setup_driver failed in a run that was given a progress callback, on a
\* tester that still holds the session of an earlier run.
C3_Witness ==
    \E t \in Threads :
        /\ Raised(t, "open")
        /\ args[t].progress_callback
        /\ driver[tester[t]] # NoDriver

(***************************************************************************)
(* C4.  A run that reached SCREENSHOT_1 or a later stage returns a         *)
(* screenshot_path that is not None, whichever later step failed.  Stated  *)
(* for the runs whose save_screenshot call returned with the file written, *)
(* which are among the runs the claim covers.                              *)
(***************************************************************************)
C4_ScreenshotPathSurfaced ==
    \A t \in Threads :
        (/\ pc[t] = "returned"
         /\ \E i \in DOMAIN log[t] : log[t][i].op = "screenshot" /\ log[t][i].st = "ok") =>
            result[t][1].screenshot_path # None

(***************************************************************************)
(* C5.  The percents passed to the progress callback in one run never      *)
(* decrease, lie in 0..100, and 100 is passed only in a run that returns   *)
(* success = True.                                                         *)
(***************************************************************************)
C5_ProgressMonotoneAnd100OnlyOnSuccess ==
    \A t \in Threads :
        /\ \A i, j \in EventIdx(t) : i < j => log[t][i].arg <= log[t][j].arg
        /\ Percents(t) \subseteq 0..100
        /\ (pc[t] = "returned" /\ 100 \in Percents(t)) => result[t][1].success

(***************************************************************************)
(* C6.  Two runs with the same arguments and the same outcome of every     *)
(* call outside the consent stage end the same way, with the same result,  *)
(* whatever the consent stage did in each; the consent stage never ends a  *)
(* run, and both runs reach the iframe wait or neither does.               *)
(***************************************************************************)
C6_ConsentNeverChangesResult ==
    /\ \A t \in Threads :
        (log[t] # << >> /\ log[t][Len(log[t])].op \in ConsentOps) =>
            (pc[t] \in {"consent_click", "cb30", "iframe_wait"} /\ result[t] = << >>)
    /\ (pc[1] \in Terminal /\ pc[2] \in Terminal) =>
        /\ pc[1] = pc[2]
        /\ result[1] = result[2]
        /\ ("iframe_wait" \in Ops(1)) <=> ("iframe_wait" \in Ops(2))

\* Thread 1 found and clicked the consent button, thread 2 found none, and
\* both runs succeeded.
C6_Witness ==
    /\ pc[1] = "returned" /\ pc[2] = "returned"
    /\ "consent_click" \in Ops(1) /\ ~Raised(1, "consent_click")
    /\ Raised(2, "consent_wait")
    /\ result[1][1].success /\ result[2][1].success

(***************************************************************************)
(* C7.  Once a call of a required stage raised, the run has executed a     *)
(* return statement with success = False, and the only call that follows   *)
(* in the run is the quit of the session.                                  *)
(***************************************************************************)
C7_TerminalFailureEndsRun ==
    \A t \in Threads :
        \A i \in DOMAIN log[t] :
            (log[t][i].op \in RequiredOps /\ log[t][i].st = "raise") =>
                /\ pc[t] \in {"finally"} \cup Terminal
                /\ result[t] # << >> /\ ~result[t][1].success
                /\ \A j \in DOMAIN log[t] : j > i => log[t][j].op = "quit"

\* The form wait failed, the session was closed and the run returned.
C7_Witness ==
    \E t \in Threads :
        /\ pc[t] = "returned"
        /\ Raised(t, "form_wait")
        /\ log[t][Len(log[t])].op = "quit"

(***************************************************************************)
(* C8.  No call is made twice in one run: each browser call, and each      *)
(* progress checkpoint, occurs at most once in the record of the run.      *)
(***************************************************************************)
C8_NoStageRetried ==
    \A t \in Threads :
        \A i, j \in DOMAIN log[t] :
            (log[t][i].op = log[t][j].op /\ log[t][i].arg = log[t][j].arg) => i = j

\* A run ended after its report-button wait failed.
C8_Witness ==
    \E t \in Threads :
        /\ pc[t] \in Terminal
        /\ Raised(t, "report_wait")
        /\ Len(log[t]) >= 9

(***************************************************************************)
(* C9.  When the wait for the "Get Free Report" element fails, the run     *)
(* returns success = False, a message that contains "Get Free Report", and *)
(* the screenshot path assigned at SCREENSHOT_1, which is not None.        *)
(***************************************************************************)
C9_ReportButtonMissing ==
    \A t \in Threads :
        Raised(t, "report_wait") =>
            /\ pc[t] \in {"finally"} \cup Terminal
            /\ result[t] # << >>
            /\ ~result[t][1].success
            /\ Contains(result[t][1].message,
                        <<"G", "e", "t", " ", "F", "r", "e", "e", " ", "R", "e", "p", "o", "r", "t">>)
            /\ result[t][1].screenshot_path = screenshot_path[t]
            /\ result[t][1].screenshot_path # None
            /\ StartsWith(result[t][1].screenshot_path, PathPrefix)

C9_Witness ==
    \E t \in Threads :
        /\ pc[t] = "returned"
        /\ Raised(t, "report_wait")
        /\ ~Raised(t, "consent_wait")

(***************************************************************************)
(* C10.  A run in which every call returned has returned success = True, a *)
(* message that contains target_url and email, and the screenshot path     *)
(* "accessibility_results_" + format_filename(target_url) + ".png"; for    *)
(* "https://example.com" that is "accessibility_results_examplecom.png".   *)
(***************************************************************************)
C10_SuccessResult ==
    \A t \in Threads :
        (pc[t] \in Terminal /\ AllSucceeded(t)) =>
            /\ pc[t] = "returned"
            /\ result[t] # << >>
            /\ result[t][1].success
            /\ Contains(result[t][1].message, args[t].target_url)
            /\ Contains(result[t][1].message, args[t].email)
            /\ result[t][1].screenshot_path =
                   PathPrefix \o format_filename(args[t].target_url) \o PathSuffix
            /\ args[t].target_url = ExampleUrl =>
                   result[t][1].screenshot_path =
                       <<"a", "c", "c", "e", "s", "s", "i", "b", "i", "l", "i", "t", "y", "_",
                         "r", "e", "s", "u", "l", "t", "s", "_",
                         "e", "x", "a", "m", "p", "l", "e", "c", "o", "m", ".", "p", "n", "g">>

C10_Witness ==
    \E t \in Threads :
        /\ pc[t] = "returned"
        /\ AllSucceeded(t)
        /\ "submit_click" \in Ops(t)
        /\ args[t].target_url = ExampleUrl
        /\ args[t].progress_callback

(***************************************************************************)
(* C11.  format_filename returns the same str for the same url, and the    *)
(* str it returns holds letters and digits only.                           *)
(***************************************************************************)
C11_FilenameAlphanumeric ==
    filename.out # None =>
        /\ filename.out = format_filename(filename.url)
        /\ \A i \in DOMAIN filename.out : filename.out[i] \in Letters \cup Digits

(***************************************************************************)
(* C12.  Of two concurrent runs, each makes its browser calls on the       *)
(* session it opened itself, and every opened session is closed exactly    *)
(* once, by the run that opened it.                                        *)
(***************************************************************************)
\* The calls run t made on a browser session.
SessionCalls(t) ==
    {i \in DOMAIN log[t] : log[t][i].op \notin {"open", "progress"}}

SessionsIsolated ==
    \A t \in Threads :
        /\ \A i \in SessionCalls(t) : log[t][i].sess \in OpenedSessions(t)
        /\ \A s \in OpenedSessions(t) :
            /\ Cardinality(QuitCalls(t, s)) <= 1
            /\ pc[t] \in Terminal => Cardinality(QuitCalls(t, s)) = 1
            /\ \A u \in Threads \ {t} : QuitCalls(u, s) = {}

BeforeScreenshot(e) ==
    \/ e.op \in {"get", "iframe_wait", "find_iframe", "switch"}
    \/ e.op = "progress" /\ e.arg <= 70

C13_EarlyFailureResult ==
    \A t \in Threads :
        \A i \in DOMAIN log[t] :
            (BeforeScreenshot(log[t][i]) /\ log[t][i].st = "raise") =>
                /\ pc[t] \in {"finally"} \cup Terminal
                /\ result[t] # << >>
                /\ ~result[t][1].success
                /\ result[t][1].screenshot_path = None
                /\ Contains(result[t][1].message, log[t][i].exc)

\* The iframe wait timed out in a run that returned.
C13_Witness ==
    \E t \in Threads :
        /\ pc[t] = "returned"
        /\ Raised(t, "iframe_wait")
        /\ "screenshot" \notin Ops(t)

(***************************************************************************)
(* C14.  A failed screenshot capture does not end the run: after a         *)
(* save_screenshot call that raised or returned False, the run goes on to  *)
(* the wait for the report button.                                         *)
(***************************************************************************)
C14_CaptureFailureNonFatal ==
    \A t \in Threads :
        (\E i \in DOMAIN log[t] : log[t][i].op = "screenshot" /\ log[t][i].st # "ok") =>
            (pc[t] = "report_wait" \/ "report_wait" \in Ops(t))

(***************************************************************************)
(* C15.  The progress events of a run are a prefix of 10, 20, 30, 50, 70,  *)
(* 80, 90, 100; a successful run emits the whole sequence; and a           *)
(* checkpoint is emitted only after the stages before it have completed.   *)
(***************************************************************************)
CheckpointSeq ==
    <<10, 20, 30, 50, 70, 80, 90, 100>>

IsProgress(e) ==
    e.op = "progress"

EventSeq(t) ==
    SelectSeq(log[t], IsProgress)

EventsArePrefix(t) ==
    /\ Len(EventSeq(t)) <= Len(CheckpointSeq)
    /\ \A k \in DOMAIN EventSeq(t) : EventSeq(t)[k].arg = CheckpointSeq[k]

\* The calls that stand before the checkpoint of percent p.
CallsBefore(p) ==
    (IF p >= 10 THEN {"open"} ELSE {})
    \cup (IF p >= 20 THEN {"get"} ELSE {})
    \cup (IF p >= 30 THEN {"consent_wait"} ELSE {})
    \cup (IF p >= 50 THEN {"iframe_wait"} ELSE {})
    \cup (IF p >= 70 THEN {"find_iframe", "switch"} ELSE {})
    \cup (IF p >= 80 THEN {"screenshot", "report_wait", "trigger_find", "trigger_click"} ELSE {})
    \cup (IF p >= 90 THEN {"form_wait", "fill_name", "fill_email"} ELSE {})
    \cup (IF p >= 100 THEN {"submit_find", "submit_click"} ELSE {})

\* Call op was made before index i and returned; the consent wait may also
\* have raised, and if it returned the click was made before i as well.
CompletedBefore(t, op, i) ==
    \E j \in DOMAIN log[t] :
        /\ j < i
        /\ log[t][j].op = op
        /\ IF op = "consent_wait"
             THEN log[t][j].st = "ok" =>
                    \E k \in DOMAIN log[t] : j < k /\ k < i /\ log[t][k].op = "consent_click"
             ELSE log[t][j].st # "raise"

EventsAfterTheirStages(t) ==
    \A i \in EventIdx(t) :
        \A op \in CallsBefore(log[t][i].arg) : CompletedBefore(t, op, i)

\* The claim as made: every successful run emits the whole sequence.
C15_ProgressCheckpoints ==
    \A t \in Threads :
        /\ EventsArePrefix(t)
        /\ EventsAfterTheirStages(t)
        /\ (pc[t] = "returned" /\ result[t][1].success) =>
               Len(EventSeq(t)) = Len(CheckpointSeq)

\* Amended: every successful run that was given a progress callback does.
C15_ProgressCheckpointsWithCallback ==
    \A t \in Threads :
        /\ EventsArePrefix(t)
        /\ EventsAfterTheirStages(t)
        /\ (pc[t] = "returned" /\ result[t][1].success /\ args[t].progress_callback) =>
               Len(EventSeq(t)) = Len(CheckpointSeq)

\* A successful run with a callback that emitted all eight events, the
\* second run on its tester.
C15_Witness ==
    \E t \in Threads :
        /\ pc[t] = "returned"
        /\ result[t][1].success
        /\ args[t].progress_callback
        /\ Len(EventSeq(t)) = 8
        /\ runs[t] = 2

(***************************************************************************)
(* C16.  The stages run in order: the context switch only after the iframe *)
(* wait was met, the screenshot only after the switch, the trigger click   *)
(* only after the report-button wait was met, the name and email input     *)
(* only after the form wait was met, and the submit click only after both  *)
(* fields were entered.                                                    *)
(***************************************************************************)
ReturnedBefore(t, op, i) ==
    \E j \in DOMAIN log[t] : j < i /\ log[t][j].op = op /\ log[t][j].st = "ok"

\* The calls that must have returned before call op is made.
Requires(op) ==
    CASE op = "switch" -> {"iframe_wait"}
      [] op = "screenshot" -> {"switch"}
      [] op = "trigger_click" -> {"report_wait"}
      [] op = "fill_name" -> {"form_wait"}
      [] op = "fill_email" -> {"form_wait"}
      [] op = "submit_click" -> {"fill_name", "fill_email"}
      [] OTHER -> {}

C16_StagesInOrder ==
    \A t \in Threads :
        \A i \in DOMAIN log[t] :
            \A op \in Requires(log[t][i].op) : ReturnedBefore(t, op, i)

\* A run that got as far as the submit click.
C16_Witness ==
    \E t \in Threads :
        /\ "submit_click" \in Ops(t)
        /\ pc[t] \in Terminal

(***************************************************************************)
(* C17.  A run returns success = True only if the session was opened, the  *)
(* iframe found and entered, the screenshot call returned, the report      *)
(* trigger found and clicked, the form appeared, name and email were       *)
(* entered and the submit click was issued, each without an exception.     *)
(***************************************************************************)
C17_SuccessOnlyAfterAllStages ==
    \A t \in Threads :
        (result[t] # << >> /\ result[t][1].success) =>
            /\ \A op \in {"open", "get"} \cup RequiredOps :
                \E i \in DOMAIN log[t] : log[t][i].op = op /\ log[t][i].st = "ok"
            /\ \E i \in DOMAIN log[t] : log[t][i].op = "screenshot" /\ log[t][i].st # "raise"
            /\ \A i \in DOMAIN log[t] :
                log[t][i].st = "raise" => log[t][i].op \in ConsentOps \cup {"quit"}

\* A run returned success although save_screenshot returned False.
C17_Witness ==
    \E t \in Threads :
        /\ pc[t] = "returned"
        /\ result[t][1].success
        /\ \E i \in DOMAIN log[t] : log[t][i].op = "screenshot" /\ log[t][i].st = "false"

(***************************************************************************)
(* C18.  When every call returns or raises within its timeout, a run that  *)
(* has started ends: from every point of capture_accessibility_test the    *)
(* run reaches its end, by a return or by an exception.                    *)
(***************************************************************************)
C18_RunTerminates ==
    \A t \in Threads : (pc[t] \notin {"idle"} \cup Terminal) ~> (pc[t] \in Terminal)

\* A run ended after its consent wait and its form wait both timed out.
C18_Witness ==
    \E t \in Threads :
        /\ pc[t] \in Terminal
        /\ Raised(t, "consent_wait")
        /\ Raised(t, "form_wait")

====
